---- MODULE Spec2Model ----
(***************************************************************************)
(* Model of scraper/job_scraper.py: the RemoteJobScraper pipeline          *)
(* (get_page, scrape_job_listings, extract_job_details, add_sample_jobs,   *)
(* filter_remote_jobs, save_to_json, run) and main.                        *)
(*                                                                         *)
(* Japanese string literals of the source are written in ASCII here:       *)
(*   "zaitaku" = 在宅, "rimoto" = リモート, "terewaku" = テレワーク,          *)
(*   "jitaku" = 自宅, "furu_zaitaku" = フル在宅, "kanzen_zaitaku" = 完全在宅, *)
(*   "jitaku_pc" = 自宅pc, "jitaku_pasokon" = 自宅パソコン,                  *)
(*   "pc_jisan" = pc持参, "pc_kankyo" = pc環境,                             *)
(*   "kizai_taiyo_nashi" = 機材貸与なし, "taiyo" = 貸与,                     *)
(*   "kyujin" = 求人, "boshu" = 募集,                                       *)
(*   "title_unknown" = タイトル不明, "company_unknown" = 会社名不明,          *)
(*   "category_unknown" = カテゴリ不明.                                     *)
(***************************************************************************)
EXTENDS Integers, Sequences, FiniteSets, TLC

VARIABLES
    pc,            \* position of the sequential program
    argv,          \* sys.argv[1:]
    output_file,   \* main's local output_file
    attempt,       \* get_page's loop variable
    response,      \* what get_page handed to its caller (a document)
    fetch_error,   \* get_page raised to its caller
    job_elements,  \* scrape_job_listings' job_elements (document positions)
    idx,           \* elements of job_elements[:30] already processed
    job_element,   \* the element extract_job_details was last called with
    job_data,      \* what extract_job_details last returned
    jobs,          \* self.jobs
    filtered_jobs, \* what filter_remote_jobs last returned
    files,         \* the file system: file name -> content
    result,        \* what run() returned to main
    stdout,        \* main's SUCCESS/ERROR line
    exit_code,     \* the process's exit status
    trace,         \* log lines, transport calls and sleeps, in order
    clock          \* datetime.now()

vars == <<pc, argv, output_file, attempt, response, fetch_error, job_elements,
          idx, job_element, job_data, jobs, filtered_jobs, files, result,
          stdout, exit_code, trace, clock>>

-----------------------------------------------------------------------------
(* Bounds of the model *)

\* longest run of equal elements in a fetched document
MaxRun == 31
\* longest description text (before the optional trailing "...") given to
\* extract_job_details
MaxDescLen == 202
\* longest record list given to filter_remote_jobs on its own
MaxJobs == 3

(* Program constants *)

Retries == 3
DescLimit == 200
MaxPrimary == 30
MaxFallback == 20
MinJobs == 3

-----------------------------------------------------------------------------
(* Values *)

None == "None"
base_url == "https://www.reworker.jp"
Marker == <<".", ".", ".">>

Min(a, b) == IF a < b THEN a ELSE b

\* n times c
Rep(c, n) == [i \in 1..n |-> c]

\* s[:n]
Take(s, n) == SubSeq(s, 1, Min(n, Len(s)))

Range(s) == {s[i] : i \in DOMAIN s}

\* the orders in which list(set(...)) may enumerate a set
Orders(S) == {s \in [1..Cardinality(S) -> S] : Range(s) = S}

\* an entry of the trace: a log line, a transport call or a sleep
Ev(e, n) == [ev |-> e, n |-> n]

\* the keyword lists of extract_job_details and of the anchor fallback
remote_keywords ==
    {"zaitaku", "rimoto", "remote", "terewaku", "jitaku", "furu_zaitaku",
     "kanzen_zaitaku"}
pc_keywords ==
    {"jitaku_pc", "jitaku_pasokon", "pc_jisan", "pc_kankyo", "kizai_taiyo_nashi"}
job_link_keywords == {"kyujin", "job", "boshu", "career", "work"}

\* the selector patterns of scrape_job_listings, in their order
job_selectors ==
    <<"[class*=job]", "[class*=card]", "[class*=item]", "[class*=list]",
      "article", ".post", ".entry">>

-----------------------------------------------------------------------------
(* Documents.  An element is described by what the queries of the code find *)
(* in it.  A query that finds nothing gives <<>>, one that finds an element *)
(* gives <<its stripped text>>:                                             *)
(*   sel        the selector patterns the element matches                   *)
(*   title_cls  its first h2-h4 whose class contains title/job              *)
(*   title_any  its first h2-h4                                             *)
(*   company, category, desc  its first element with such a class           *)
(*   href       its first a[href], as <<origin, path>> (origin "" for a     *)
(*              relative reference)                                         *)
(*   words      the keywords its lower-cased text contains                  *)
(*   anchor     whether the element itself is an a[href]                    *)
(*   text       its stripped text                                           *)

Elem(sel, tc, ta, co, ca, de, hr, wo, an, tx) ==
    [sel |-> sel, title_cls |-> tc, title_any |-> ta, company |-> co,
     category |-> ca, desc |-> de, href |-> hr, words |-> wo, anchor |-> an,
     text |-> tx]

\* a reference urlparse rejects (an unclosed IPv6 bracket)
BadHref == <<"http://[", "">>

Kinds ==
    [job_card |->
        Elem({"[class*=job]", "[class*=card]"}, <<"Web Engineer">>,
             <<"Web Engineer">>, <<"Acme">>, <<"dev">>, << <<"a", "b", "c">> >>,
             << <<"", "/jobs/1">> >>, {"remote", "jitaku", "jitaku_pc"}, FALSE,
             "Web Engineer Acme"),
     card_loan |->
        Elem({"[class*=card]"}, <<>>, <<"Support">>, <<>>, <<>>, <<>>,
             << <<"", "/jobs/2">> >>, {"rimoto", "taiyo"}, FALSE, "Support"),
     item_office |->
        Elem({"[class*=item]"}, <<>>, <<>>, <<>>, <<"tag">>, << <<>> >>, <<>>,
             {}, FALSE, "menu"),
     list_own_pc |->
        Elem({"[class*=list]", "[class*=item]"}, <<"Writer">>, <<"Writer">>,
             <<>>, <<>>, <<>>, << <<"https://example.org", "/w">> >>,
             {"zaitaku", "kizai_taiyo_nashi", "taiyo"}, FALSE, "Writer"),
     article_blank |->
        Elem({"article"}, <<>>, <<"">>, <<>>, <<>>, <<>>,
             << <<"", "/a">> >>, {"terewaku"}, FALSE, ""),
     job_bad_href |->
        Elem({"[class*=job]"}, <<"Designer">>, <<"Designer">>, <<>>, <<>>, <<>>,
             <<BadHref>>, {"remote"}, FALSE, "Designer"),
     a_job |->
        Elem({}, <<>>, <<>>, <<>>, <<>>, <<>>, << <<"", "/career">> >>,
             {"job", "career"}, TRUE, "Job list"),
     a_other |->
        Elem({}, <<>>, <<>>, <<>>, <<>>, <<>>, << <<"", "/about">> >>,
             {}, TRUE, "About"),
     a_bad_href |->
        Elem({}, <<>>, <<>>, <<>>, <<>>, <<>>, <<BadHref>>,
             {"work"}, TRUE, "Work with us")]

KindNames == DOMAIN Kinds

\* A document is a sequence of runs of equal elements.
RunLens == {1, 2, MaxRun}
Runs == [kind : KindNames, count : RunLens]
Docs == {<<>>} \cup {<<r>> : r \in Runs} \cup {<<r, s>> : r \in Runs, s \in Runs}

RECURSIVE Nodes(_)
\* the elements of a document, in document order
Nodes(d) ==
    IF d = <<>> THEN <<>>
    ELSE Rep(Kinds[Head(d).kind], Head(d).count) \o Nodes(Tail(d))

\* the elements extract_job_details is given on its own
DescTexts ==
    {Rep("a", n) \o t :
        n \in {0, 1} \cup (DescLimit - 3 .. MaxDescLen), t \in {<<>>, Marker}}
DetailElems ==
    {Elem({"[class*=job]"}, tt[1], tt[2], <<>>, <<>>, de, hr, wo, FALSE, "x") :
        tt \in {<< <<>>, <<>> >>, << <<"T">>, <<"T">> >>, << <<>>, <<"H">> >>,
                << <<"">>, <<"H">> >>},
        de \in {<<>>} \cup {<<d>> : d \in DescTexts},
        hr \in {<<>>, << <<"", "/j">> >>, <<BadHref>>},
        wo \in {{}, {"remote"}, {"zaitaku", "taiyo"}}}

\* the record lists filter_remote_jobs is given on its own
FilterRecords ==
    [title : {"A", "B"}, is_remote : BOOLEAN, is_own_pc_ok : BOOLEAN]
FilterInputs ==
    UNION {[1..n -> FilterRecords] : n \in 0..MaxJobs}

-----------------------------------------------------------------------------
(* get_page *)

\* mutant of ShouldRetry: the bound is off by one, so the last failure
\* sleeps too and nothing is raised
ShouldRetryOffByOne(n) == n < Retries

\* line 58: another attempt follows this failed one
ShouldRetry(n) == n < Retries - 1

\* mutant of Backoff: linear instead of exponential
BackoffLinear(n) == 2 * n

\* line 59: the backoff after failed attempt n
Backoff(n) == 2 ^ n

-----------------------------------------------------------------------------
(* extract_job_details *)

\* urlparse raises ValueError on the reference
UrljoinRaises(h) == h = BadHref

\* urljoin(base, h): an absolute reference stands, a relative one is resolved
urljoin(base, h) == IF h[1] = "" THEN <<base, h[2]>> ELSE h

\* mutant of Truncate: >= for >
TruncateFromLimit(description) ==
    IF Len(description) >= DescLimit
    THEN SubSeq(description, 1, DescLimit) \o Marker
    ELSE description

\* line 100
Truncate(description) ==
    IF Len(description) > DescLimit
    THEN SubSeq(description, 1, DescLimit) \o Marker
    ELSE description

\* lines 67-70
TitleOf(e) ==
    LET title_elem == IF e.title_cls = <<>> THEN e.title_any ELSE e.title_cls
    IN IF title_elem # <<>> THEN title_elem[1] ELSE "title_unknown"

\* lines 65-112: <<the record>>, or <<>> for None (an exception was caught)
extract_job_details(e, now) ==
    IF e.href # <<>> /\ UrljoinRaises(e.href[1]) THEN <<>>
    ELSE
      LET full_text == e.words
          is_remote == \E keyword \in remote_keywords : keyword \in full_text
          is_own_pc == (\E keyword \in pc_keywords : keyword \in full_text)
                       \/ "taiyo" \notin full_text
      IN << [title |-> TitleOf(e),
             company |-> IF e.company # <<>> THEN e.company[1]
                         ELSE "company_unknown",
             category |-> IF e.category # <<>> THEN e.category[1]
                          ELSE "category_unknown",
             description |-> Truncate(IF e.desc # <<>> THEN e.desc[1] ELSE <<>>),
             link |-> IF e.href # <<>> THEN urljoin(base_url, e.href[1])
                      ELSE <<"", "">>,
             is_remote |-> is_remote,
             is_own_pc_ok |-> is_own_pc,
             scraped_at |-> now,
             source |-> "Reworker"] >>

-----------------------------------------------------------------------------
(* scrape_job_listings *)

RECURSIVE select_from(_, _, _)
select_from(nodes, selector, i) ==
    IF i > Len(nodes) THEN <<>>
    ELSE (IF selector \in nodes[i].sel THEN <<i>> ELSE <<>>)
         \o select_from(nodes, selector, i + 1)

\* soup.select(selector): the positions of the matching elements, in
\* document order
select(d, selector) == select_from(Nodes(d), selector, 1)

RECURSIVE find_from(_, _)
find_from(d, k) ==
    IF k > Len(job_selectors) THEN <<>>
    ELSE LET elements == select(d, job_selectors[k])
         IN IF elements # <<>> THEN elements ELSE find_from(d, k + 1)

RECURSIVE find_all_from(_, _)
find_all_from(d, k) ==
    IF k > Len(job_selectors) THEN <<>>
    ELSE select(d, job_selectors[k]) \o find_all_from(d, k + 1)

\* mutant of find_job_elements: the loop without its break
find_all_job_elements(d) == find_all_from(d, 1)

\* lines 134-140: the loop over job_selectors, left at the first match
find_job_elements(d) == find_from(d, 1)

\* line 169: job_elements[:30]
primary_elements(elements) == Take(elements, MaxPrimary)

RECURSIVE anchors_from(_, _)
anchors_from(nodes, i) ==
    IF i > Len(nodes) THEN <<>>
    ELSE (IF nodes[i].anchor /\ nodes[i].href # <<>> THEN <<i>> ELSE <<>>)
         \o anchors_from(nodes, i + 1)

\* line 144: soup.find_all('a', href=True)
all_links(d) == anchors_from(Nodes(d), 1)

\* lines 148-149
job_links(d) ==
    SelectSeq(all_links(d),
              LAMBDA i : \E keyword \in job_link_keywords :
                            keyword \in Nodes(d)[i].words)

RECURSIVE fallback_from(_, _, _, _)
fallback_from(nodes, links, k, now) ==
    IF k > Len(links) THEN [jobs |-> <<>>, raised |-> FALSE]
    ELSE LET link == nodes[links[k]]
         IN IF UrljoinRaises(link.href[1])
            THEN [jobs |-> <<>>, raised |-> TRUE]
            ELSE LET rest == fallback_from(nodes, links, k + 1, now)
                 IN [jobs |-> << [title |-> link.text,
                                  company |-> "company_unknown",
                                  category |-> "category_unknown",
                                  description |-> <<>>,
                                  link |-> urljoin(base_url, link.href[1]),
                                  is_remote |-> TRUE,
                                  is_own_pc_ok |-> TRUE,
                                  scraped_at |-> now,
                                  source |-> "Reworker"] >> \o rest.jobs,
                     raised |-> rest.raised]

\* lines 154-166: the records appended for job_links[:20], and whether
\* urljoin raised before the loop ended
fallback_jobs(d, now) ==
    fallback_from(Nodes(d), Take(job_links(d), MaxFallback), 1, now)

-----------------------------------------------------------------------------
(* add_sample_jobs, filter_remote_jobs, save_to_json *)

Sample(t, c, ca, d, l, now) ==
    [title |-> t, company |-> c, category |-> ca, description |-> d,
     link |-> <<"https://example.com", l>>, is_remote |-> TRUE,
     is_own_pc_ok |-> TRUE, scraped_at |-> now, source |-> "Sample Data"]

\* lines 182-216
sample_jobs(now) ==
    << Sample("full remote web engineer", "tech startup", "engineering",
              <<"d", "1">>, "/job1", now),
       Sample("home writer", "digital marketing", "writing",
              <<"d", "2">>, "/job2", now),
       Sample("remote customer support", "global tech", "customer support",
              <<"d", "3">>, "/job3", now) >>

\* mutant of filter_remote_jobs: or for and
filter_either_jobs(js) ==
    SelectSeq(js, LAMBDA job : job.is_remote \/ job.is_own_pc_ok)

\* line 223
filter_remote_jobs(js) ==
    SelectSeq(js, LAMBDA job : job.is_remote /\ job.is_own_pc_ok)

\* mutant of NeedsSamples: the records that pass the filter are counted
NeedsSamplesFewPassing(js) == Len(filter_remote_jobs(js)) < MinJobs

\* mutant of NeedsSamples: an empty record list is left alone
NeedsSamplesNonEmpty(js) == 0 < Len(js) /\ Len(js) < MinJobs

\* line 261
NeedsSamples(js) == Len(js) < MinJobs

\* mutant of output_data: the sources listed without set()
output_data_listed(filtered, sites, now) ==
    [metadata |-> [scraped_at |-> now,
                   total_jobs |-> Len(filtered),
                   source_sites |-> [i \in DOMAIN filtered |-> filtered[i].source],
                   scraper_version |-> "1.0.0"],
     jobs |-> filtered]

\* lines 232-240, for one enumeration order of the set of sources
output_data(filtered, sites, now) ==
    [metadata |-> [scraped_at |-> now,
                   total_jobs |-> Len(filtered),
                   source_sites |-> sites,
                   scraper_version |-> "1.0.0"],
     jobs |-> filtered]

\* line 227: save_to_json's default file name, which run() leaves in place
SaveFileName == "jobs.json"

\* line 285
DefaultOutputFile == "remote_jobs.json"

FileNames == {SaveFileName, DefaultOutputFile, "out.json"}

Absent == [state |-> "absent", data |-> <<>>]
Partial == [state |-> "partial", data |-> <<>>]
Written(data) == [state |-> "complete", data |-> <<data>>]

-----------------------------------------------------------------------------
(* The process: main, run, scrape_job_listings, get_page, save_to_json.     *)
(* Every action takes one reading of the clock.                             *)

Idle ==
    /\ attempt = 0
    /\ response = <<>>
    /\ fetch_error = FALSE
    /\ job_elements = <<>>
    /\ idx = 0
    /\ job_data = <<>>
    /\ filtered_jobs = <<>>
    /\ files = [f \in FileNames |-> Absent]
    /\ result = None
    /\ stdout = [kind |-> "", file |-> None]
    /\ exit_code = -1
    /\ trace = <<>>
    /\ clock = 0
    /\ output_file = None

Init ==
    /\ pc = "main"
    /\ argv \in {<<>>, <<"out.json">>}
    /\ job_element = Kinds.a_other
    /\ jobs = <<>>
    /\ Idle

\* lines 282-288, 254, 258: main picks output_file, builds the scraper and
\* calls run(), which calls scrape_job_listings(), which calls get_page()
MainStart ==
    /\ pc = "main"
    /\ output_file' = IF Len(argv) > 0 THEN argv[1] ELSE DefaultOutputFile
    /\ jobs' = <<>>
    /\ trace' = Append(trace, Ev("log_start", 0))
    /\ attempt' = 0
    /\ pc' = "get_page"
    /\ clock' = clock + 1
    /\ UNCHANGED <<argv, response, fetch_error, job_elements, idx, job_element,
                   job_data, filtered_jobs, files, result, stdout, exit_code>>

\* lines 52-55: an attempt that succeeds; the document is the response
GetPageOk ==
    /\ pc = "get_page"
    /\ \E d \in Docs : response' = <<d>>
    /\ trace' = trace \o <<Ev("log_fetch", attempt), Ev("get_ok", attempt)>>
    /\ pc' = "parse"
    /\ clock' = clock + 1
    /\ UNCHANGED <<argv, output_file, attempt, fetch_error, job_elements, idx,
                   job_element, job_data, jobs, filtered_jobs, files, result,
                   stdout, exit_code>>

\* lines 52-61: an attempt that fails.  It sleeps and goes round the loop, or
\* re-raises; the exception passes through scrape_job_listings' try to its
\* except (lines 177-178).  A loop that ends without returning or raising
\* returns None.
GetPageFail ==
    /\ pc = "get_page"
    /\ clock' = clock + 1
    /\ IF ShouldRetry(attempt)
       THEN /\ trace' = trace \o <<Ev("log_fetch", attempt),
                                   Ev("get_fail", attempt),
                                   Ev("log_error", attempt + 1),
                                   Ev("sleep", Backoff(attempt))>>
            /\ attempt' = attempt + 1
            /\ pc' = IF attempt + 1 < Retries THEN "get_page" ELSE "parse"
            /\ UNCHANGED fetch_error
       ELSE /\ trace' = trace \o <<Ev("log_fetch", attempt),
                                   Ev("get_fail", attempt),
                                   Ev("log_error", attempt + 1),
                                   Ev("log_scrape_error", 0)>>
            /\ fetch_error' = TRUE
            /\ pc' = "run_check"
            /\ UNCHANGED attempt
    /\ UNCHANGED <<argv, output_file, response, job_elements, idx, job_element,
                   job_data, jobs, filtered_jobs, files, result, stdout,
                   exit_code>>

\* lines 119-142: parse the response and look for the listing elements.
\* response.text of None raises, which line 177 catches.
Parse ==
    /\ pc = "parse"
    /\ clock' = clock + 1
    /\ IF response = <<>>
       THEN /\ trace' = Append(trace, Ev("log_scrape_error", 0))
            /\ pc' = "run_check"
            /\ UNCHANGED job_elements
       ELSE LET elements == find_job_elements(response[1])
            IN /\ job_elements' = elements
               /\ trace' = trace \o <<Ev("log_main_page", 0)>>
                                 \o (IF elements # <<>>
                                     THEN <<Ev("log_found", Len(elements))>>
                                     ELSE <<>>)
               /\ pc' = IF elements = <<>> THEN "fallback" ELSE "primary"
    /\ idx' = 0
    /\ UNCHANGED <<argv, output_file, attempt, response, fetch_error,
                   job_element, job_data, jobs, filtered_jobs, files, result,
                   stdout, exit_code>>

\* lines 143-166, 175: no selector matched; the anchors whose text holds a
\* job keyword become records
Fallback ==
    /\ pc = "fallback"
    /\ clock' = clock + 1
    /\ LET d == response[1]
           links == job_links(d)
           got == fallback_jobs(d, clock)
       IN /\ jobs' = jobs \o got.jobs
          /\ trace' = trace
                \o <<Ev("log_fallback", Len(all_links(d)))>>
                \o (IF links # <<>> THEN <<Ev("log_job_links", Len(links))>>
                    ELSE <<>>)
                \o <<IF got.raised THEN Ev("log_scrape_error", 0)
                     ELSE Ev("log_scraped", Len(jobs \o got.jobs))>>
    /\ pc' = "run_check"
    /\ UNCHANGED <<argv, output_file, attempt, response, fetch_error,
                   job_elements, idx, job_element, job_data, filtered_jobs,
                   files, result, stdout, exit_code>>

\* lines 169-173: one round of the loop over job_elements[:30]
ProcessElement ==
    /\ pc = "primary"
    /\ idx < Len(primary_elements(job_elements))
    /\ clock' = clock + 1
    /\ LET pos == primary_elements(job_elements)[idx + 1]
           element == Nodes(response[1])[pos]
           data == extract_job_details(element, clock)
       IN /\ job_element' = element
          /\ job_data' = data
          /\ jobs' = jobs \o data
          /\ trace' = trace
                \o <<Ev("extract", pos)>>
                \o (IF data = <<>> THEN <<Ev("log_extract_error", pos)>>
                    ELSE <<>>)
                \o <<Ev("random_delay", 0)>>
    /\ idx' = idx + 1
    /\ UNCHANGED <<pc, argv, output_file, attempt, response, fetch_error,
                   job_elements, filtered_jobs, files, result, stdout,
                   exit_code>>

\* line 175: the loop is over
PrimaryDone ==
    /\ pc = "primary"
    /\ idx = Len(primary_elements(job_elements))
    /\ clock' = clock + 1
    /\ trace' = Append(trace, Ev("log_scraped", Len(jobs)))
    /\ pc' = "run_check"
    /\ UNCHANGED <<argv, output_file, attempt, response, fetch_error,
                   job_elements, idx, job_element, job_data, jobs,
                   filtered_jobs, files, result, stdout, exit_code>>

\* lines 261-263: run() adds the sample records when there are few records
RunCheck ==
    /\ pc = "run_check"
    /\ clock' = clock + 1
    /\ IF NeedsSamples(jobs)
       THEN /\ jobs' = jobs \o sample_jobs(clock)
            /\ trace' = trace \o <<Ev("log_few", 0), Ev("log_samples", 3)>>
       ELSE UNCHANGED <<jobs, trace>>
    /\ pc' = "save"
    /\ UNCHANGED <<argv, output_file, attempt, response, fetch_error,
                   job_elements, idx, job_element, job_data, filtered_jobs,
                   files, result, stdout, exit_code>>

\* lines 266-273 and 227-250: run() calls save_to_json() with no argument.
\* open() may fail (the file is left as it was), the write may fail (the
\* file is left truncated or incomplete), or the document is written.
SaveToJson ==
    /\ pc = "save"
    /\ clock' = clock + 1
    /\ LET filtered == filter_remote_jobs(jobs)
           filename == SaveFileName
       IN /\ filtered_jobs' = filtered
          /\ \E outcome \in {"ok", "open_fails", "dump_fails"},
                sites \in Orders({job.source : job \in Range(filtered)}) :
               /\ files' =
                    CASE outcome = "ok" ->
                           [files EXCEPT ![filename] =
                               Written(output_data(filtered, sites, clock))]
                      [] outcome = "dump_fails" ->
                           [files EXCEPT ![filename] = Partial]
                      [] OTHER -> files
               /\ result' = IF outcome = "ok" THEN filename ELSE None
               /\ trace' = trace
                    \o <<Ev("log_filter", Len(filtered))>>
                    \o (IF outcome = "ok"
                        THEN <<Ev("log_saved", Len(filtered)), Ev("log_done", 0)>>
                        ELSE <<Ev("log_save_error", 0), Ev("log_failed", 0)>>)
    /\ pc' = "main_result"
    /\ UNCHANGED <<argv, output_file, attempt, response, fetch_error,
                   job_elements, idx, job_element, job_data, jobs, stdout,
                   exit_code>>

\* lines 290-294
MainExit ==
    /\ pc = "main_result"
    /\ clock' = clock + 1
    /\ IF result # None
       THEN /\ stdout' = [kind |-> "SUCCESS", file |-> result]
            /\ exit_code' = 0
       ELSE /\ stdout' = [kind |-> "ERROR", file |-> None]
            /\ exit_code' = 1
    /\ pc' = "done"
    /\ UNCHANGED <<argv, output_file, attempt, response, fetch_error,
                   job_elements, idx, job_element, job_data, jobs,
                   filtered_jobs, files, result, trace>>

Next ==
    \/ MainStart
    \/ GetPageOk
    \/ GetPageFail
    \/ Parse
    \/ Fallback
    \/ ProcessElement
    \/ PrimaryDone
    \/ RunCheck
    \/ SaveToJson
    \/ MainExit

Spec == Init /\ [][Next]_vars

-----------------------------------------------------------------------------
(* filter_remote_jobs on its own: any record list, one call *)

InitFilter ==
    /\ pc = "filter"
    /\ argv = <<>>
    /\ job_element = Kinds.a_other
    /\ jobs \in FilterInputs
    /\ Idle

\* lines 221-225
FilterStep ==
    /\ pc = "filter"
    /\ filtered_jobs' = filter_remote_jobs(jobs)
    /\ trace' = Append(trace, Ev("log_filter", Len(filter_remote_jobs(jobs))))
    /\ pc' = "filtered"
    /\ clock' = clock + 1
    /\ UNCHANGED <<argv, output_file, attempt, response, fetch_error,
                   job_elements, idx, job_element, job_data, jobs, files,
                   result, stdout, exit_code>>

NextFilter == FilterStep

SpecFilter == InitFilter /\ [][NextFilter]_vars

-----------------------------------------------------------------------------
(* extract_job_details on its own: any element, one call *)

InitDetails ==
    /\ pc = "details"
    /\ argv = <<>>
    /\ job_element \in DetailElems
    /\ jobs = <<>>
    /\ Idle

\* lines 63-112
DetailsStep ==
    /\ pc = "details"
    /\ job_data' = extract_job_details(job_element, clock)
    /\ trace' = IF extract_job_details(job_element, clock) = <<>>
                THEN Append(trace, Ev("log_extract_error", 0))
                ELSE trace
    /\ pc' = "detailed"
    /\ clock' = clock + 1
    /\ UNCHANGED <<argv, output_file, attempt, response, fetch_error,
                   job_elements, idx, job_element, jobs, filtered_jobs, files,
                   result, stdout, exit_code>>

NextDetails == DetailsStep

SpecDetails == InitDetails /\ [][NextDetails]_vars

-----------------------------------------------------------------------------
(* Properties *)

\* the transport calls made so far, in order
Gets == SelectSeq(trace, LAMBDA e : e.ev \in {"get_ok", "get_fail"})

\* the positions extract_job_details was called with, in order
Processed ==
    LET calls == SelectSeq(trace, LAMBDA e : e.ev = "extract")
    IN [i \in DOMAIN calls |-> calls[i].n]

Passes(job) == job.is_remote /\ job.is_own_pc_ok

\* js2 is js1 followed by exactly the three sample records
SamplesAppended(js1, js2) ==
    /\ Len(js2) = Len(js1) + 3
    /\ SubSeq(js2, 1, Len(js1)) = js1
    /\ \A i \in 1..3 : js2[Len(js1) + i].source = "Sample Data"
    /\ js2[Len(js1) + 1].title = "full remote web engineer"
    /\ js2[Len(js1) + 2].title = "home writer"
    /\ js2[Len(js1) + 3].title = "remote customer support"

\* C1: get_page makes at most 3 attempts; a success on attempt 1, 2 or 3 is
\* the last attempt and hands the response to the caller with no error;
\* get_page raises exactly when 3 attempts in a row failed, and then hands
\* over nothing; it never returns without a response.
C1_GetPageAtMostThreeAttempts ==
    /\ Len(Gets) <= 3
    /\ \A i \in DOMAIN Gets :
          Gets[i].ev = "get_ok" =>
             i = Len(Gets) /\ ~fetch_error /\ response # <<>>
    /\ fetch_error <=>
          (Len(Gets) = 3 /\ \A i \in DOMAIN Gets : Gets[i].ev = "get_fail")
    /\ fetch_error => response = <<>>
    /\ response # <<>> => Gets[Len(Gets)].ev = "get_ok"
    /\ pc \notin {"main", "get_page"} => (fetch_error \/ response # <<>>)

\* C1's case: two failed attempts, then a success that is returned
C1_Witness ==
    /\ pc = "parse"
    /\ Len(Gets) = 3
    /\ Gets[1].ev = "get_fail" /\ Gets[2].ev = "get_fail" /\ Gets[3].ev = "get_ok"
    /\ response # <<>> /\ ~fetch_error

\* C10: every attempt is logged before it is made; a failed attempt n is
\* logged as an error; when it is not the last, a sleep of 2^n seconds (1 s,
\* then 2 s) follows and then attempt n+1; the last failed attempt is
\* followed by no sleep and raises; nothing sleeps right after a success,
\* and get_page sleeps nowhere else.
C10_BackoffBetweenAttempts ==
    \A i \in DOMAIN trace :
       /\ trace[i].ev \in {"get_ok", "get_fail"} =>
             i > 1 /\ trace[i - 1] = Ev("log_fetch", trace[i].n)
       /\ trace[i].ev = "get_fail" =>
             /\ i + 2 \in DOMAIN trace
             /\ trace[i + 1] = Ev("log_error", trace[i].n + 1)
             /\ IF trace[i].n < 2
                THEN /\ trace[i + 2] =
                           Ev("sleep", IF trace[i].n = 0 THEN 1 ELSE 2)
                     /\ i + 3 \in DOMAIN trace =>
                           trace[i + 3] = Ev("log_fetch", trace[i].n + 1)
                     /\ i + 3 \notin DOMAIN trace => pc = "get_page"
                ELSE /\ trace[i + 2].ev # "sleep"
                     /\ fetch_error
       /\ (trace[i].ev = "get_ok" /\ i + 1 \in DOMAIN trace) =>
             trace[i + 1].ev # "sleep"
       /\ trace[i].ev = "sleep" =>
             i > 2 /\ trace[i - 2].ev = "get_fail" /\ trace[i - 2].n < 2

\* C10's case: three failed attempts, with sleeps of 1 s and 2 s between them
C10_Witness ==
    /\ fetch_error
    /\ SelectSeq(trace, LAMBDA e : e.ev = "sleep")
          = <<Ev("sleep", 1), Ev("sleep", 2)>>

\* C2 as stated: when fewer than 3 of the records pass the filter before the
\* sample injection, run() appends exactly the 3 sample records.
C2_SamplesWhenFewPassFilter ==
    [][(pc = "run_check"
        /\ Cardinality({i \in DOMAIN jobs : Passes(jobs[i])}) < 3)
       => SamplesAppended(jobs, jobs')]_vars

\* C2, amended: when fewer than 3 records were scraped (counted before the
\* filter), run() appends exactly the 3 sample records, all with source
\* "Sample Data"; when 3 or more were scraped it appends none, however few
\* of them pass the filter.
C2_SamplesWhenFewScraped ==
    [][pc = "run_check"
       => IF Len(jobs) < 3 THEN SamplesAppended(jobs, jobs')
          ELSE jobs' = jobs]_vars

\* C2's case: one scraped record, then the three samples
C2_Witness ==
    /\ pc = "save"
    /\ Len(jobs) = 4
    /\ jobs[1].source = "Reworker"
    /\ \A i \in 2..4 : jobs[i].source = "Sample Data"

\* C3: the output is written to the file main chose (the argument, or main's
\* default), and the success line names that file.
C3_OutputFileIsMainsChoice ==
    (pc = "done" /\ exit_code = 0) =>
       /\ files[output_file].state = "complete"
       /\ stdout = [kind |-> "SUCCESS", file |-> output_file]

\* the fetch failed for good, or the document has no element any selector
\* matches and no anchor with a job keyword
NothingToScrape ==
    \/ fetch_error
    \/ /\ response # <<>>
       /\ \A i \in DOMAIN Nodes(response[1]) :
             LET e == Nodes(response[1])[i]
             IN /\ e.sel = {}
                /\ ~(e.anchor /\ e.words \cap job_link_keywords # {})

IsTheSamples(js) ==
    /\ Len(js) = 3
    /\ SamplesAppended(<<>>, js)
    /\ \A i \in 1..3 : js[i].is_remote /\ js[i].is_own_pc_ok

\* C4: when nothing can be scraped and the file is written, the written jobs
\* array is the 3 sample records in their order, all remote and own-PC, and
\* the process exits with 0; it exits non-zero only when saving failed.
C4_NothingScrapedGivesSamples ==
    /\ \A f \in FileNames :
          (NothingToScrape /\ files[f].state = "complete") =>
             /\ IsTheSamples(files[f].data[1].jobs)
             /\ pc = "done" => exit_code = 0
    /\ (pc = "done" /\ exit_code # 0) =>
          \E i \in DOMAIN trace : trace[i] = Ev("log_save_error", 0)
    /\ pc = "done" => exit_code \in {0, 1}

\* C4's case: a document with elements, none of them a listing or a job
\* link, written out and exited with 0
C4_Witness ==
    /\ pc = "done"
    /\ exit_code = 0
    /\ response # <<>> /\ Len(Nodes(response[1])) > 0
    /\ NothingToScrape
    /\ \E f \in FileNames : files[f].state = "complete"

\* out is in_ without the records that fail the filter, in the same order
ExactlyKept(in_, out) ==
    LET keep == {i \in DOMAIN in_ : Passes(in_[i])}
        nth(k) == CHOOSE i \in keep : Cardinality({j \in keep : j < i}) = k - 1
    IN /\ Len(out) = Cardinality(keep)
       /\ \A k \in 1..Len(out) : out[k] = in_[nth(k)]

\* C5: filter_remote_jobs returns exactly the records that are remote and
\* own-PC, in their order, duplicates kept, and leaves self.jobs as it was.
C5_FilterKeepsExactlyPassing ==
    [][pc = "filter" => (jobs' = jobs /\ ExactlyKept(jobs, filtered_jobs'))]_vars

\* C5's case: a record is dropped between two equal records that are kept
C5_Witness ==
    /\ pc = "filtered"
    /\ Len(jobs) = 3
    /\ jobs[1] = jobs[3] /\ Passes(jobs[1]) /\ ~Passes(jobs[2])
    /\ filtered_jobs = <<jobs[1], jobs[3]>>

\* the positions of nodes that selector k matches, in document order
MatchesOf(nodes, k) ==
    SelectSeq([i \in 1..Len(nodes) |-> i],
              LAMBDA i : job_selectors[k] \in nodes[i].sel)

\* the selectors that match some element of nodes
Matching(nodes) ==
    {k \in DOMAIN job_selectors :
        \E i \in DOMAIN nodes : job_selectors[k] \in nodes[i].sel}

\* C6: when some selector pattern matches, the elements processed are the
\* first min(30, n) matches of the earliest pattern that matches, in document
\* order, and the anchor fallback is not taken.
C6_FirstMatchingSelectorOnly ==
    (response # <<>> /\ Matching(Nodes(response[1])) # {}) =>
       LET nodes == Nodes(response[1])
           hit == Matching(nodes)
           first == CHOOSE k \in hit : \A j \in hit : k <= j
           all == MatchesOf(nodes, first)
           n == Len(all)
           expected == SubSeq(all, 1, IF n < 30 THEN n ELSE 30)
           done == Processed
       IN /\ Len(done) <= Len(expected)
          /\ done = SubSeq(expected, 1, Len(done))
          /\ pc \in {"run_check", "save", "main_result", "done"} =>
                done = expected
          /\ \A i \in DOMAIN trace : trace[i].ev # "log_fallback"

\* C6's case: the earliest matching pattern has more than 30 matches, a
\* later pattern has more matches still, and 30 elements were processed
C6_Witness ==
    /\ pc = "run_check"
    /\ response # <<>>
    /\ Len(Processed) = 30
    /\ Len(MatchesOf(Nodes(response[1]), 1)) > 30
    /\ Len(MatchesOf(Nodes(response[1]), 2))
          > Len(MatchesOf(Nodes(response[1]), 1))

\* C7: every record has a non-empty title.
C7_TitleNonEmpty ==
    \A i \in DOMAIN jobs : jobs[i].title # ""

EndsWithMarker(s) ==
    Len(s) >= 3 /\ SubSeq(s, Len(s) - 2, Len(s)) = Marker

\* the description text extract_job_details found in job_element
SourceDesc == IF job_element.desc # <<>> THEN job_element.desc[1] ELSE <<>>

\* C8 as stated: the description is at most 203 characters and ends with
\* "..." if and only if the source text was longer than 200 characters, and
\* then it is the first 200 characters and the marker.
C8_MarkerIffLonger ==
    (pc = "detailed" /\ job_data # <<>>) =>
       LET out == job_data[1].description
       IN /\ Len(out) <= 203
          /\ EndsWithMarker(out) <=> Len(SourceDesc) > 200
          /\ Len(SourceDesc) > 200 =>
                out = SubSeq(SourceDesc, 1, 200) \o Marker

\* C8, amended: the description is at most 203 characters; a source text
\* longer than 200 characters gives its first 200 characters and "...", and
\* a source text of at most 200 characters is kept as it is (so it ends with
\* "..." only when the source text itself does).
C8_TruncatedIffLonger ==
    (pc = "detailed" /\ job_data # <<>>) =>
       LET out == job_data[1].description
       IN /\ Len(out) <= 203
          /\ Len(SourceDesc) > 200 =>
                out = SubSeq(SourceDesc, 1, 200) \o Marker
          /\ Len(SourceDesc) <= 200 => out = SourceDesc

\* C8's case: a source text of 201 characters is cut to 200 and marked
C8_Witness ==
    /\ pc = "detailed"
    /\ job_data # <<>>
    /\ Len(SourceDesc) = 201
    /\ Len(job_data[1].description) = 203
    /\ EndsWithMarker(job_data[1].description)

\* C9: in every written document total_jobs is the length of the jobs
\* array, source_sites holds each source of the jobs array once and nothing
\* else, and the jobs array is the records of self.jobs that pass the
\* filter, in order.
C9_MetadataMatchesJobs ==
    \A f \in FileNames :
       files[f].state = "complete" =>
          LET doc == files[f].data[1]
              sites == doc.metadata.source_sites
          IN /\ doc.metadata.total_jobs = Len(doc.jobs)
             /\ \A i, j \in DOMAIN sites : sites[i] = sites[j] => i = j
             /\ Range(sites) = {doc.jobs[i].source : i \in DOMAIN doc.jobs}
             /\ doc.jobs = SelectSeq(jobs, Passes)

\* C9's case: a written document with records of two sources, one scraped
\* record having been dropped by the filter
C9_Witness ==
    \E f \in FileNames :
       /\ files[f].state = "complete"
       /\ Len(files[f].data[1].metadata.source_sites) = 2
       /\ files[f].data[1].metadata.total_jobs = 4
       /\ Len(jobs) = 5

====
